---- MODULE Spec2Model ----
(***************************************************************************)
(* build_and_solve of chavi_pulp_model.py as a state machine: one run of   *)
(* the function from its entry to its return (or to the exception that     *)
(* leaves it), one action per block of the function body.                  *)
(*                                                                         *)
(* Number representation.  The Python code works on floats; here every     *)
(* quantity is an integer in a fixed unit:                                 *)
(*   flow        0.01 m3/s            (the data tables have two decimals)   *)
(*   volume      864 m3               (0.01 m3/s during 86400 s), so that   *)
(*               flow * secs / 1e6 hm3 is flow * secs / 86400 volume units  *)
(*   factor      1/100                (efficiencies, multipliers: One=1.0)  *)
(*   unit price  1e-7 USD/m3          (the price tables have 7 decimals)    *)
(*   price/hm3   1e-3 USD/hm3                                              *)
(*   penalty     USD/hm3 (the rate build_and_solve is given)               *)
(*   money       <<a, b, c>> standing for a * 10^12 + b * 10^6 + c,        *)
(*               counted in (1e-3 USD/hm3) * (864 m3) = 8.64e-7 USD         *)
(* A constraint row is stored multiplied by One, so that a row with an     *)
(* efficiency coefficient has integer coefficients.                        *)
(***************************************************************************)
EXTENDS Integers, Sequences, FiniteSets, TLC

(* ------------------------------ bounds -------------------------------- *)
\* months of the year that are modelled (consecutive ones of the twelve)
NMonths == 1
\* largest allocation a returned point puts on one arc, in XStep * days units
MaxVal == 2
\* largest number of variables a run without a solution leaves written
MaxTouched == 1

(* ---------------------------- base data ------------------------------- *)
Range(s) == {s[k] : k \in 1..Len(s)}

AllMonths == <<"Ene","Feb","Mar","Abr","May","Jun","Jul","Ago","Sep","Oct","Nov","Dic">>

days == <<31,28,31,30,31,30,31,31,30,31,30,31>>

MonthIndex(m) == CHOOSE k \in 1..Len(AllMonths) : AllMonths[k] = m

secs(m) == days[MonthIndex(m)] * 24 * 3600

sources == <<"Santa","Huamanzana","Chorobal","Viru_Rio",
             "Dren_Chao","Dren_Viru","Pozos_Chao","Pozos_Viru">>

demands == <<"Chao","Viru","S1","S2","S3","S4",
             "PTAP_Trujillo","PTAP_Chao","Industria","Pecuario">>

\* 1.0 as a factor
One == 100

\* unit prices in 1e-7 USD/m3
cost_offer_USD_m3 ==
  [i \in Range(sources) |->
     CASE i = "Santa"      -> 248200
       [] i = "Huamanzana" -> 17953
       [] i = "Chorobal"   -> 17953
       [] i = "Viru_Rio"   -> 18038
       [] i = "Dren_Chao"  -> 17953
       [] i = "Dren_Viru"  -> 18038
       [] i = "Pozos_Chao" -> 615100
       [] i = "Pozos_Viru" -> 615100]

value_dem_USD_m3 ==
  [j \in Range(demands) |->
     CASE j = "Chao"          -> 17953
       [] j = "Viru"          -> 18038
       [] j \in {"S1","S2","S3","S4"} -> 248200
       [] j \in {"PTAP_Trujillo","PTAP_Chao"} -> 289150
       [] j \in {"Industria","Pecuario"} -> 248200]

efficiencies ==
  [s \in {"S1","S2"} |->
     [j \in Range(demands) |->
        CASE j \in {"Chao","Viru"} -> (IF s = "S1" THEN 30 ELSE 60)
          [] j \in {"S1","S2","S3","S4"} -> (IF s = "S1" THEN 89 ELSE 95)
          [] OTHER -> 100]]

(* --------------------------- the state -------------------------------- *)
VARIABLES
  \* the arguments of build_and_solve
  scenario, mult_pozos_chao, mult_pozos_viru, penalty_usd_hm3,
  weight_ptap, weight_ind_pec, weight_agro, cap_santa_m3s, solver_name,
  \* the two flow tables (flows per source or demand and month).  The code
  \* holds them as literals and builds every row from them in the same way
  \* whatever they contain; the runs below take the tables of the code or
  \* small tables in their place, so that more of the points that satisfy
  \* the rows can be enumerated.
  offer_m3s, demand_m3s,
  \* the first of the NMonths months the run goes through: no row and no
  \* term of the objective holds variables of two months
  first_month,
  \* the environment: the hash seed that fixes the iteration order of a
  \* set of tuples of strings, the backends installed on the machine, and
  \* how many variables a backend run that finds no solution writes
  hashseed, installed, touched,
  \* the run
  pc, prob, x, u, eff, solver, solve_calls, varValue, error, result

args == <<scenario, mult_pozos_chao, mult_pozos_viru, penalty_usd_hm3,
          weight_ptap, weight_ind_pec, weight_agro, cap_santa_m3s, solver_name>>

tables == <<offer_m3s, demand_m3s, first_month>>

environment == <<hashseed, installed, touched>>

vars == <<args, tables, environment,
          pc, prob, x, u, eff, solver, solve_calls, varValue, error, result>>

months == SubSeq(AllMonths, first_month, first_month + NMonths - 1)

(* -------------------- compatibility (allowed arcs) --------------------- *)
allowed_arcs_wrong_cluster ==
  {<<"Santa", j, m>> : j \in Range(demands), m \in Range(months)}
  \cup {<<i, "Chao", m>> :
          i \in {"Huamanzana","Chorobal","Dren_Chao","Pozos_Chao","Pozos_Viru"},
          m \in Range(months)}
  \cup {<<i, "Viru", m>> :
          i \in {"Viru_Rio","Dren_Viru"}, m \in Range(months)}

allowed_arcs ==
  {<<"Santa", j, m>> : j \in Range(demands), m \in Range(months)}
  \cup {<<i, "Chao", m>> :
          i \in {"Huamanzana","Chorobal","Dren_Chao","Pozos_Chao"},
          m \in Range(months)}
  \cup {<<i, "Viru", m>> :
          i \in {"Viru_Rio","Dren_Viru","Pozos_Viru"}, m \in Range(months)}

\* every (source, demand, month), sources outermost and months innermost
AllTriples ==
  [k \in 1..(Len(sources) * Len(demands) * Len(months)) |->
     <<sources[((k - 1) \div (Len(demands) * Len(months))) + 1],
       demands[(((k - 1) \div Len(months)) % Len(demands)) + 1],
       months[((k - 1) % Len(months)) + 1]>>]

Reverse(s) == [k \in 1..Len(s) |-> s[Len(s) + 1 - k]]

\* The order in which Python iterates over the set allowed_arcs.  It depends
\* on the hashes of the strings, which change with the hash seed; two of the
\* possible orders stand for them.
IterationOrder(S, seed) ==
  LET inOrder == SelectSeq(AllTriples, LAMBDA a : a \in S)
  IN  IF seed = 0 THEN inOrder ELSE Reverse(inOrder)

(* ---------------------- conversion to hm3 per month -------------------- *)
\* flow * secs / 1e6, in volume units of 864 m3
ToVolume(flow, m) == flow * (secs(m) \div (24 * 3600))

Qhat(i, m) == ToVolume(offer_m3s[i][MonthIndex(m)], m)

\* the adjusted volume, times One
Qhat_adjusted_all_wells(i, m) ==
  LET base == Qhat(i, m)
  IN  IF i \in {"Pozos_Chao", "Pozos_Viru"} THEN base * mult_pozos_chao
      ELSE base * One

Qhat_adjusted(i, m) ==
  LET base == Qhat(i, m)
  IN  IF i = "Pozos_Chao" THEN base * mult_pozos_chao
      ELSE IF i = "Pozos_Viru" THEN base * mult_pozos_viru
      ELSE base * One

Dhat(j, m) == ToVolume(demand_m3s[j][MonthIndex(m)], m)

CapSanta(m) == ToVolume(cap_santa_m3s, m)

\* prices in 1e-3 USD/hm3
cost_offer_USD_hm3(i) == cost_offer_USD_m3[i] * 100

value_dem_USD_hm3(j) == value_dem_USD_m3[j] * 100

weight_dem(j) ==
  IF j \in {"PTAP_Trujillo","PTAP_Chao"} THEN weight_ptap
  ELSE IF j \in {"Industria","Pecuario"} THEN weight_ind_pec
  ELSE weight_agro

(* --------------------------- money and rounding ------------------------ *)
\* An amount of money is <<a, b, c>>, standing for a * 10^12 + b * 10^6 + c;
\* it is normalised when 0 <= b, c < 10^6 (a carries the sign).
MBase == 1000 * 1000

MZero == <<0, 0, 0>>

MNorm(a) ==
  LET b == a[2] + (a[3] \div MBase)
  IN  <<a[1] + (b \div MBase), b % MBase, a[3] % MBase>>

MAdd(a, b) == <<a[1] + b[1], a[2] + b[2], a[3] + b[3]>>

MSub(a, b) == MNorm(<<a[1] - b[1], a[2] - b[2], a[3] - b[3]>>)

MNeg(a) == MSub(MZero, a)

\* an integer as an amount
MFromInt(c) == MNorm(<<0, 0, c>>)

\* a normalised amount times k, 0 <= k <= 2000
MScale(a, k) == MNorm(<<a[1] * k, a[2] * k, a[3] * k>>)

\* a normalised price times a volume v, 0 <= v < 2 * 10^6
MTimesVol(p, v) ==
  IF v = 0 THEN MZero
  ELSE IF v < 1000 THEN MScale(p, v)
  ELSE MNorm(MAdd(MScale(MScale(p, v \div 1000), 1000), MScale(p, v % 1000)))

\* price * volume, the price an integer
MTimes(c, v) == MTimesVol(MFromInt(c), v)

\* round(): to the nearest, a tie to the even one; q + rem/den with 0 <= rem < den
RoundHalfEven(q, rem, den) ==
  IF 2 * rem < den THEN q
  ELSE IF 2 * rem > den THEN q + 1
  ELSE IF q % 2 = 0 THEN q ELSE q + 1

\* cubic metres in a volume unit
M3PerUnit == (24 * 3600) \div One

\* round(money, 2), in cents and as an amount: a money unit is
\* M3PerUnit / 10^7 cents
Round2(a) ==
  LET n == MScale(MNorm(a), M3PerUnit)
      q == MNorm(<<0, n[1] \div 10, (n[1] % 10) * (MBase \div 10) + (n[2] \div 10)>>)
      rem == (n[2] % 10) * MBase + n[3]
  IN  MNorm(<<q[1], q[2], RoundHalfEven(q[3], rem, 10 * MBase)>>)

\* round(volume, 6), in m3 (1e-6 hm3), of a volume given times One
Round6(scaled) ==
  LET hi == scaled \div One
      lo == scaled % One
  IN  RoundHalfEven(hi * M3PerUnit + ((lo * M3PerUnit) \div One),
                    (lo * M3PerUnit) % One, One)

\* the sum of price * value over the terms lo..hi, halving the range
RECURSIVE MSumRange(_, _, _, _)
MSumRange(terms, val, lo, hi) ==
  IF lo > hi THEN MZero
  ELSE IF lo = hi THEN MTimesVol(terms[lo][2], val[terms[lo][1]][1])
  ELSE LET mid == (lo + hi) \div 2
       IN  MAdd(MSumRange(terms, val, lo, mid), MSumRange(terms, val, mid + 1, hi))

MSumFrom(terms, val, k) == MSumRange(terms, val, k, Len(terms))

(* --------------------------- PuLP objects ------------------------------ *)
\* a variable of the problem, by its name: x__i__j__m or u__j__m
XVar(a) == <<"x", a[1], a[2], a[3]>>

UVar(j, m) == <<"u", "", j, m>>

\* the keys of the dict u, in insertion order: demands outermost
UKeys ==
  [k \in 1..(Len(demands) * Len(months)) |->
     <<demands[((k - 1) \div Len(months)) + 1], months[((k - 1) % Len(months)) + 1]>>]

NoProblem == [exists |-> FALSE, constraints |-> <<>>, objective |-> <<>>, status |-> 0]

\* pl.lpSum(x[(i,j,m)] for i in sources if (i,j,m) in x): the terms, each
\* with coefficient c
SumOverSources(j, m, c) ==
  LET pick == SelectSeq(sources, LAMBDA i : <<i, j, m>> \in Range(x))
  IN  [k \in 1..Len(pick) |-> <<XVar(<<pick[k], j, m>>), c>>]

SumOverDemands(i, m, c) ==
  LET pick == SelectSeq(demands, LAMBDA j : <<i, j, m>> \in Range(x))
  IN  [k \in 1..Len(pick) |-> <<XVar(<<i, pick[k], m>>), c>>]

Row(name, terms, sense, rhs) ==
  [name |-> name, terms |-> terms, sense |-> sense, rhs |-> rhs]

Pairs(s, t) ==
  [k \in 1..(Len(s) * Len(t)) |-> <<s[((k - 1) \div Len(t)) + 1], t[((k - 1) % Len(t)) + 1]>>]

(* ----------------------------- the rows -------------------------------- *)
\* Balance de demanda
Balance_Dem_as_upper_bound(j, m) ==
  Row(<<"Balance_Dem", j, m>>,
      SumOverSources(j, m, eff[j]) \o <<(<<UVar(j, m), One>>)>>,
      "<=", One * Dhat(j, m))

Balance_Dem(j, m) ==
  Row(<<"Balance_Dem", j, m>>,
      SumOverSources(j, m, eff[j]) \o <<(<<UVar(j, m), One>>)>>,
      "==", One * Dhat(j, m))

\* Oferta por fuente/mes
Oferta(i, m) ==
  Row(<<"Oferta", i, m>>, SumOverDemands(i, m, One), "<=", Qhat_adjusted(i, m))

\* Capacidad canal Santa
Cap_Santa_replaces_supply(m) ==
  Row(<<"Oferta", "Santa", m>>, SumOverDemands("Santa", m, One), "<=", One * CapSanta(m))

Cap_Santa(m) ==
  Row(<<"Cap_Santa", "Santa", m>>, SumOverDemands("Santa", m, One), "<=", One * CapSanta(m))

\* Deficit cero para PTAPs, Industria, Pecuario
ZeroDeficitDemands_without_livestock == <<"PTAP_Trujillo","PTAP_Chao","Industria">>

ZeroDeficitDemands == <<"PTAP_Trujillo","PTAP_Chao","Industria","Pecuario">>

DeficitCero(j, m) ==
  Row(<<"DeficitCero", j, m>>, <<(<<UVar(j, m), One>>)>>, "==", 0)

\* prob += row: a row whose name the problem already holds replaces nothing
\* in PuLP (it raises); the names built here are distinct.
AddAll(rows) == [prob EXCEPT !.constraints = @ \o rows]

\* Objetivo: the coefficient of x[(i,j,m)], in 1e-3 USD/hm3, and of u[(j,m)],
\* an amount of 1e-3 USD/hm3 (the rate is given in USD/hm3)
\* factor * price, the factor being in units of 1/One
Scale(f, v) == f * (v \div One) + ((f * (v % One)) \div One)

benefit_coef_efficiency_on_cost(i, j) ==
  Scale(eff[j], value_dem_USD_hm3(j) - cost_offer_USD_hm3(i))

benefit_coef(i, j) ==
  Scale(eff[j], value_dem_USD_hm3(j)) - cost_offer_USD_hm3(i)

penalty_coef(j) ==
  MScale(MScale(MFromInt(penalty_usd_hm3), weight_dem(j)), 1000)

Beneficio_Neto_without_penalty ==
  [k \in 1..Len(x) |-> <<XVar(x[k]), MFromInt(benefit_coef(x[k][1], x[k][2]))>>]

Beneficio_Neto ==
  [k \in 1..Len(x) |-> <<XVar(x[k]), MFromInt(benefit_coef(x[k][1], x[k][2]))>>]
  \o [k \in 1..Len(u) |-> <<UVar(u[k][1], u[k][2]), MNeg(penalty_coef(u[k][1]))>>]

(* ------------------------ building the model --------------------------- *)
CreateProblem ==
  /\ pc = "start"
  /\ prob' = [NoProblem EXCEPT !.exists = TRUE]
  /\ pc' = "problem"
  /\ UNCHANGED <<args, tables, environment, x, u, eff, solver, solve_calls,
                 varValue, error, result>>

CreateVariables ==
  /\ pc = "problem"
  /\ x' = IterationOrder(allowed_arcs, hashseed)
  /\ u' = UKeys
  /\ pc' = "variables"
  /\ UNCHANGED <<args, tables, environment, prob, eff, solver, solve_calls,
                 varValue, error, result>>

\* eff = efficiencies[scenario]
LookupEff ==
  /\ pc = "variables"
  /\ IF scenario \in DOMAIN efficiencies
       THEN /\ eff' = efficiencies[scenario]
            /\ pc' = "eff"
            /\ error' = error
       ELSE /\ eff' = eff
            /\ pc' = "raised"
            /\ error' = "KeyError"
  /\ UNCHANGED <<args, tables, environment, prob, x, u, solver, solve_calls,
                 varValue, result>>

AddBalance ==
  /\ pc = "eff"
  /\ LET keys == Pairs(demands, months)
     IN  prob' = AddAll([k \in 1..Len(keys) |-> Balance_Dem(keys[k][1], keys[k][2])])
  /\ pc' = "balance"
  /\ UNCHANGED <<args, tables, environment, x, u, eff, solver, solve_calls,
                 varValue, error, result>>

AddSupply ==
  /\ pc = "balance"
  /\ LET keys == Pairs(sources, months)
     IN  prob' = AddAll([k \in 1..Len(keys) |-> Oferta(keys[k][1], keys[k][2])])
  /\ pc' = "supply"
  /\ UNCHANGED <<args, tables, environment, x, u, eff, solver, solve_calls,
                 varValue, error, result>>

AddCapSanta ==
  /\ pc = "supply"
  /\ prob' = AddAll([k \in 1..Len(months) |-> Cap_Santa(months[k])])
  /\ pc' = "cap"
  /\ UNCHANGED <<args, tables, environment, x, u, eff, solver, solve_calls,
                 varValue, error, result>>

AddZeroDeficit ==
  /\ pc = "cap"
  /\ LET keys == Pairs(ZeroDeficitDemands, months)
     IN  prob' = AddAll([k \in 1..Len(keys) |-> DeficitCero(keys[k][1], keys[k][2])])
  /\ pc' = "zero"
  /\ UNCHANGED <<args, tables, environment, x, u, eff, solver, solve_calls,
                 varValue, error, result>>

SetObjective ==
  /\ pc = "zero"
  /\ prob' = [prob EXCEPT !.objective = Beneficio_Neto]
  /\ pc' = "objective"
  /\ UNCHANGED <<args, tables, environment, x, u, eff, solver, solve_calls,
                 varValue, error, result>>

(* ------------------------------ Solver --------------------------------- *)
\* str.lower() on the names the runs use
lower(name) ==
  CASE name = "CBC" -> "cbc"
    [] name = "GLPK" -> "glpk"
    [] OTHER -> name

\* the class the chain of ifs constructs for a name
BackendFor(name) ==
  IF name \in {"cbc", "pulp_cbc_cmd"} THEN "PULP_CBC_CMD"
  ELSE IF name \in {"glpk", "glpk_cmd"} THEN "GLPK_CMD"
  ELSE "PULP_CBC_CMD"

\* solver_name = (solver_name or "cbc").lower(); "" stands for None.
\* Constructing the object of a backend that is not installed raises in some
\* PuLP releases and succeeds in others.
SelectSolver ==
  /\ pc = "objective"
  /\ solver_name' = lower(IF solver_name = "" THEN "cbc" ELSE solver_name)
  /\ \E raises \in (IF BackendFor(solver_name') \in installed THEN {FALSE} ELSE BOOLEAN) :
       solver' = IF raises THEN "None" ELSE BackendFor(solver_name')
  /\ pc' = "solver"
  /\ UNCHANGED <<scenario, mult_pozos_chao, mult_pozos_viru, penalty_usd_hm3,
                 weight_ptap, weight_ind_pec, weight_agro, cap_santa_m3s,
                 tables, environment, prob, x, u, eff, solve_calls,
                 varValue, error, result>>

\* pulp.LpSolverDefault: the first installed backend, or none
LpSolverDefault ==
  IF "PULP_CBC_CMD" \in installed THEN "PULP_CBC_CMD"
  ELSE IF "GLPK_CMD" \in installed THEN "GLPK_CMD"
  ELSE "None"

\* the backend prob.solve(solver) or prob.solve() runs
UsedBackend == IF solver # "None" THEN solver ELSE LpSolverDefault

LpStatus ==
  [c \in {1, 0, -1, -2, -3} |->
     CASE c = 1 -> "Optimal"
       [] c = 0 -> "Not Solved"
       [] c = -1 -> "Infeasible"
       [] c = -2 -> "Unbounded"
       [] c = -3 -> "Undefined"]

AllVars ==
  {XVar(x[k]) : k \in 1..Len(x)} \cup {UVar(u[k][1], u[k][2]) : k \in 1..Len(u)}

\* A variable's value is <<>> (None) or <<n>> (n volume units).
RECURSIVE LhsFrom(_, _, _)
LhsFrom(terms, val, k) ==
  IF k > Len(terms) THEN 0
  ELSE terms[k][2] * val[terms[k][1]][1] + LhsFrom(terms, val, k + 1)

Satisfies(val, row) ==
  IF row.sense = "==" THEN LhsFrom(row.terms, val, 1) = row.rhs
  ELSE LhsFrom(row.terms, val, 1) <= row.rhs

Feasible(val) ==
  \A k \in 1..Len(prob.constraints) : Satisfies(val, prob.constraints[k])

\* The points a backend may return as a solution are put together from
\* plans, one per cell (demand, month) that requires water; a cell that
\* requires none gets none.  A plan gives a value to the allocations into
\* the cell and to its deficit: the whole requirement left as deficit, or
\* the whole requirement brought by the canal, or, when the requirement is
\* within the reach of the grid, a point of the grid (an allocation a
\* multiple of XStep flow units during the month, a deficit a multiple of
\* one flow unit during the month).
XStep == One \div 10

DaysOf(m) == secs(m) \div (24 * 3600)

HotCells == {c \in Range(u) : Dhat(c[1], c[2]) > 0}

ArcsOfCell(c) == {a \in Range(x) : a[2] = c[1] /\ a[3] = c[2]}

CellVars(c) == {XVar(a) : a \in ArcsOfCell(c)} \cup {UVar(c[1], c[2])}

\* the point that is `plan` on the variables of the plan and `rest` elsewhere
Merge(plan, rest) ==
  [v \in DOMAIN rest |-> IF v \in DOMAIN plan THEN plan[v] ELSE rest[v]]

OnGrid(c) == Dhat(c[1], c[2]) <= XStep * MaxVal * DaysOf(c[2])

GridPoint(c, xs, g) ==
  [v \in CellVars(c) |->
     IF v[1] = "x" THEN <<xs[<<v[2], v[3], v[4]>>] * XStep * DaysOf(v[4])>>
     ELSE <<g * DaysOf(v[4])>>]

Unserved(c) ==
  [v \in CellVars(c) |-> IF v[1] = "x" THEN <<0>> ELSE <<Dhat(c[1], c[2])>>]

ServedByCanal(c) ==
  [v \in CellVars(c) |->
     IF v[1] = "x" /\ v[2] = "Santa"
       THEN <<(One * Dhat(c[1], c[2])) \div eff[c[1]]>>
       ELSE <<0>>]

\* the rows without a deficit variable
SupplyRows ==
  SelectSeq(prob.constraints,
            LAMBDA r : \A t \in 1..Len(r.terms) : r.terms[t][1][1] = "x")

\* the rows with the deficit variable of the cell
CellRows(c) ==
  SelectSeq(prob.constraints,
            LAMBDA r : \E t \in 1..Len(r.terms) : r.terms[t][1] = UVar(c[1], c[2]))

Holds(val, rows) == \A k \in 1..Len(rows) : Satisfies(val, rows[k])

\* a plan alone: every variable it does not hold is 0
RECURSIVE PlanLhs(_, _, _)
PlanLhs(terms, plan, k) ==
  IF k > Len(terms) THEN 0
  ELSE (IF terms[k][1] \in DOMAIN plan THEN terms[k][2] * plan[terms[k][1]][1] ELSE 0)
         + PlanLhs(terms, plan, k + 1)

PlanHolds(plan, rows) ==
  \A k \in 1..Len(rows) :
    IF rows[k].sense = "==" THEN PlanLhs(rows[k].terms, plan, 1) = rows[k].rhs
    ELSE PlanLhs(rows[k].terms, plan, 1) <= rows[k].rhs

\* The plans of a cell that can be part of a point: alone, they satisfy the
\* rows of the cell and the rows without a deficit variable.  The
\* allocations of the grid are searched first, then the deficit with them.
PlansOf(c, supply) ==
  LET rows == CellRows(c)
      within == IF OnGrid(c)
                  THEN {xs \in [ArcsOfCell(c) -> 0..MaxVal] :
                          PlanHolds(GridPoint(c, xs, 0), supply)}
                  ELSE {}
      grid == {GridPoint(c, xg[1], xg[2]) : xg \in within \X (0..(XStep * MaxVal))}
  IN  {p \in grid \cup {Unserved(c), ServedByCanal(c)} :
         PlanHolds(p, supply) /\ PlanHolds(p, rows)}

\* the points that take one plan for each of the cells and are `rest` elsewhere
RECURSIVE Combine(_, _, _, _)
Combine(cells, plans, supply, rest) ==
  IF cells = {} THEN {rest}
  ELSE LET c == CHOOSE c \in cells : TRUE
           more == {q \in {Merge(p, rest) : p \in plans[c]} : Holds(q, supply)}
       IN  UNION {Combine(cells \ {c}, plans, supply, q) : q \in more}

FeasiblePoints ==
  LET zero == [v \in AllVars |-> <<0>>]
      supply == SupplyRows
      plans == [c \in HotCells |-> PlansOf(c, supply)]
  IN  {p \in Combine(HotCells, plans, supply, zero) : Feasible(p)}

\* What a run that ends without a solution leaves in the variables: nothing
\* at all or zero everywhere, but for at most `touched` variables.
RECURSIVE SubsetsUpTo(_, _)
SubsetsUpTo(S, k) ==
  IF k = 0 THEN {{}}
  ELSE LET P == SubsetsUpTo(S, k - 1)
       IN  P \cup {s \cup {a} : s \in P, a \in S}

StrayValues == {<<>>, <<0>>, <<XStep * DaysOf(months[1])>>}

Leftovers ==
  UNION {UNION {{[v \in AllVars |-> IF v \in S THEN f[v] ELSE d] :
                   f \in [S -> StrayValues \ {d}]} :
                S \in SubsetsUpTo(AllVars, touched)} :
         d \in {<<>>, <<0>>}}

\* prob.solve(solver) with a backend that is not there: PulpSolverError
\* leaves build_and_solve.
SolveRaises ==
  /\ pc = "solver"
  /\ UsedBackend \notin installed
  /\ solve_calls' = solve_calls + 1
  /\ pc' = "raised"
  /\ error' = "PulpSolverError"
  /\ UNCHANGED <<args, tables, environment, prob, x, u, eff, solver,
                 varValue, result>>

\* The backend ends with a solution: a point that satisfies every row.
SolveWithSolution ==
  /\ pc = "solver"
  /\ UsedBackend \in installed
  /\ \E p \in FeasiblePoints : varValue' = p
  /\ prob' = [prob EXCEPT !.status = 1]
  /\ solve_calls' = solve_calls + 1
  /\ pc' = "solved"
  /\ UNCHANGED <<args, tables, environment, x, u, eff, solver, error, result>>

\* The backend ends without one: not solved (the time limit), infeasible,
\* unbounded or undefined.
SolveWithoutSolution ==
  /\ pc = "solver"
  /\ UsedBackend \in installed
  /\ \E c \in {0, -1, -2, -3} : prob' = [prob EXCEPT !.status = c]
  /\ \E p \in Leftovers : varValue' = p
  /\ solve_calls' = solve_calls + 1
  /\ pc' = "solved"
  /\ UNCHANGED <<args, tables, environment, x, u, eff, solver, error, result>>

(* ------------------------- result extraction --------------------------- *)
\* var.value() or 0.0
OrZero_unguarded(v) == v

OrZero(v) == IF v = <<>> THEN <<0>> ELSE v

\* pl.value(prob.objective): None as soon as one variable has no value
ObjectiveValue ==
  IF \E k \in 1..Len(prob.objective) : varValue[prob.objective[k][1]] = <<>>
    THEN <<>>
    ELSE <<MNorm(MSumFrom(prob.objective, varValue, 1))>>

\* the values the extraction reads
Read == [v \in DOMAIN varValue |-> OrZero(varValue[v])]

benefit_total ==
  MNorm(MSumFrom([k \in 1..Len(x) |->
                    <<XVar(x[k]),
                      MFromInt(Scale(eff[x[k][2]], value_dem_USD_hm3(x[k][2])))>>],
                 Read, 1))

cost_total ==
  MNorm(MSumFrom([k \in 1..Len(x) |-> <<XVar(x[k]), MFromInt(cost_offer_USD_hm3(x[k][1]))>>],
                 Read, 1))

penalty_total ==
  MNorm(MSumFrom([k \in 1..Len(u) |-> <<UVar(u[k][1], u[k][2]), penalty_coef(u[k][1])>>],
                 Read, 1))

alloc_rows ==
  [k \in 1..Len(x) |->
     LET i == x[k][1]
         j == x[k][2]
         xv == OrZero(varValue[XVar(x[k])])[1]
     IN  [month |-> x[k][3], source |-> i, demand |-> j,
          x_hm3 |-> Round6(xv * One),
          delivered_hm3 |-> Round6(eff[j] * xv),
          cost_USD |-> Round2(MTimes(cost_offer_USD_hm3(i), xv)),
          benefit_USD |-> Round2(MTimes(Scale(eff[j], value_dem_USD_hm3(j)), xv))]]

deficit_rows ==
  [k \in 1..Len(demands) * Len(months) |->
     LET j == demands[((k - 1) \div Len(months)) + 1]
         m == months[((k - 1) % Len(months)) + 1]
     IN  [demand |-> j, month |-> m,
          deficit_hm3 |-> Round6(OrZero(varValue[UVar(j, m)])[1] * One)]]

deficits_by_month ==
  [m \in Range(months) |->
     LhsFrom([k \in 1..Len(demands) |-> <<UVar(demands[k], m), 1>>], Read, 1)]

\* the status string of a status code
StatusName_always_optimal(c) == "Optimal"

StatusName(c) == LpStatus[c]

summary(obj, benefit, cost, penalty) ==
  [status |-> StatusName(prob.status),
   objective_USD |->
     IF obj = <<>> THEN [nan |-> TRUE, cents |-> MZero]
     ELSE [nan |-> FALSE, cents |-> Round2(obj[1])],
   benefit_USD |-> Round2(benefit),
   cost_USD |-> Round2(cost),
   penalty_USD |-> Round2(penalty),
   scenario |-> scenario,
   mult_pozos_chao |-> mult_pozos_chao,
   mult_pozos_viru |-> mult_pozos_viru,
   cap_santa_m3s |-> cap_santa_m3s,
   penalty_usd_hm3 |-> penalty_usd_hm3,
   deficits_hm3_by_month |->
     [m \in Range(months) |-> Round6(deficits_by_month[m] * One)]]

NoResult == [returned |-> FALSE]

\* Lines 212-267.  Arithmetic on a value that is None raises TypeError.
Extract ==
  /\ pc = "solved"
  /\ IF \E v \in DOMAIN varValue : OrZero(varValue[v]) = <<>>
       THEN /\ pc' = "raised"
            /\ error' = "TypeError"
            /\ result' = result
       ELSE LET obj == ObjectiveValue
                benefit == benefit_total
                cost == cost_total
                penalty == penalty_total
            IN  /\ pc' = "returned"
                /\ error' = error
                /\ result' = [returned |-> TRUE,
                              status |-> StatusName(prob.status),
                              objective |-> obj,
                              benefit_total |-> benefit,
                              cost_total |-> cost,
                              penalty_total |-> penalty,
                              alloc_rows |-> alloc_rows,
                              deficit_rows |-> deficit_rows,
                              summary |-> summary(obj, benefit, cost, penalty)]
  /\ UNCHANGED <<args, tables, environment, prob, x, u, eff, solver,
                 solve_calls, varValue>>

(* ------------------------------ the runs ------------------------------- *)
\* One flow table per choice: Santa carries s, every other source l, but
\* Huamanzana, whose series is zero in every month.
OfferTables(SantaFlows, LocalFlows) ==
  {[i \in Range(sources) |->
      [k \in 1..NMonths |->
         IF i = "Santa" THEN s ELSE IF i = "Huamanzana" THEN 0 ELSE l]] :
     s \in SantaFlows, l \in LocalFlows}

\* One demand requires d in one month, the others nothing.
DemandTables(Js, Ds) ==
  {[j \in Range(demands) |->
      [k \in 1..NMonths |-> IF j = hj /\ k = hk THEN d ELSE 0]] :
     hj \in Js, hk \in 1..NMonths, d \in Ds}

InitOver(S) ==
  /\ scenario \in S.scenario
  /\ \E mu \in S.mults : mult_pozos_chao = mu[1] /\ mult_pozos_viru = mu[2]
  /\ penalty_usd_hm3 \in S.penalty
  /\ \E w \in S.weights :
        weight_ptap = w[1] /\ weight_ind_pec = w[2] /\ weight_agro = w[3]
  /\ cap_santa_m3s \in S.cap
  /\ solver_name \in S.solver_name
  /\ offer_m3s \in S.offer
  /\ demand_m3s \in S.demand
  /\ first_month \in S.first_month
  /\ hashseed \in S.hashseed
  /\ installed \in S.installed
  /\ touched \in S.touched
  /\ pc = "start"
  /\ prob = NoProblem
  /\ x = <<>>
  /\ u = <<>>
  /\ eff = <<>>
  /\ solver = "None"
  /\ solve_calls = 0
  /\ varValue = <<>>
  /\ error = "None"
  /\ result = NoResult

\* Runs over the scenarios, the canal capacity and the data with the default
\* backend installed.
InitData ==
  InitOver([scenario |-> {"S1", "S2"},
            mults |-> {<<100, 100>>},
            penalty |-> {0},
            weights |-> {<<100, 50, 1>>},
            cap |-> {10, 20},
            solver_name |-> {"cbc"},
            offer |-> OfferTables({10, 20}, {10}),
            demand |-> DemandTables(Range(demands), {10, 20}),
            first_month |-> {1},
            hashseed |-> {0},
            installed |-> {{"PULP_CBC_CMD"}},
            touched |-> {0}])

\* Runs over the multipliers of the wells, with a requirement in one of the
\* two valleys the wells serve.
InitWells ==
  InitOver([scenario |-> {"S1", "S2"},
            mults |-> {<<200, 100>>, <<100, 200>>},
            penalty |-> {0},
            weights |-> {<<100, 50, 1>>},
            cap |-> {10, 20},
            solver_name |-> {"cbc"},
            offer |-> OfferTables({10, 20}, {10}),
            demand |-> DemandTables({"Chao", "Viru"}, {10, 20}),
            first_month |-> {1},
            hashseed |-> {0},
            installed |-> {{"PULP_CBC_CMD"}},
            touched |-> {0}])

\* Runs over the scenario names, the solver names and the installed backends.
InitCalls ==
  InitOver([scenario |-> {"S1", "S3", "s1"},
            mults |-> {<<100, 100>>},
            penalty |-> {0, 5000},
            weights |-> {<<100, 50, 1>>, <<1, 1, 7>>},
            cap |-> {20},
            solver_name |-> {"cbc", "glpk", "GLPK", "auto", ""},
            offer |-> OfferTables({20}, {10}),
            demand |-> DemandTables({"Pecuario"}, {10}),
            first_month |-> {1},
            hashseed |-> {0, 1},
            installed |-> SUBSET {"PULP_CBC_CMD", "GLPK_CMD"},
            touched |-> {0}])

Init == InitData \/ InitWells \/ InitCalls

\* Runs over the penalty, the weights and what a backend leaves behind.
InitExtract ==
  InitOver([scenario |-> {"S1", "S2", "S3"},
            mults |-> {<<100, 100>>},
            penalty |-> {0, 5000},
            weights |-> {<<100, 50, 1>>, <<1, 1, 7>>},
            cap |-> {20},
            solver_name |-> {"cbc", "glpk"},
            offer |-> OfferTables({20}, {10}),
            demand |-> DemandTables({"Chao"}, {10}),
            first_month |-> {1},
            hashseed |-> {0},
            installed |-> {{"PULP_CBC_CMD"}},
            touched |-> 0..MaxTouched])

\* The two tables of the code (lines 62-84), in flow units.
offer_m3s_builtin ==
  [i \in Range(sources) |->
     CASE i = "Santa" -> <<1759, 1841, 1729, 1654, 1636, 1490, 1172, 1190, 1155, 1472, 1806, 1902>>
       [] i = "Huamanzana" -> <<0, 0, 0, 0, 0, 0, 0, 0, 0, 0, 0, 0>>
       [] i = "Chorobal" -> <<0, 0, 0, 1, 0, 0, 0, 0, 0, 0, 0, 0>>
       [] i = "Viru_Rio" -> <<21, 115, 201, 189, 57, 7, 3, 0, 0, 0, 0, 0>>
       [] i = "Dren_Chao" -> <<53, 66, 50, 51, 52, 49, 49, 67, 94, 104, 104, 83>>
       [] i = "Dren_Viru" -> <<61, 70, 63, 69, 62, 62, 57, 59, 59, 53, 65, 65>>
       [] i = "Pozos_Chao" -> <<0, 0, 0, 0, 0, 0, 19, 22, 27, 24, 0, 0>>
       [] i = "Pozos_Viru" -> <<0, 0, 0, 0, 0, 15, 19, 22, 25, 23, 25, 19>>]

demand_m3s_builtin ==
  [i \in Range(demands) |->
     CASE i = "Chao" -> <<198, 182, 192, 188, 185, 179, 174, 272, 377, 416, 380, 314>>
       [] i = "Viru" -> <<235, 276, 278, 299, 318, 315, 278, 293, 266, 277, 264, 322>>
       [] i = "S1" -> <<460, 473, 449, 445, 398, 370, 288, 289, 299, 345, 431, 447>>
       [] i = "S2" -> <<92, 94, 90, 89, 79, 74, 57, 58, 60, 69, 86, 89>>
       [] i = "S3" -> <<283, 291, 277, 274, 245, 227, 177, 178, 184, 212, 265, 275>>
       [] i = "S4" -> <<318, 327, 311, 308, 275, 256, 199, 200, 207, 239, 298, 309>>
       [] i = "PTAP_Trujillo" -> <<122, 114, 121, 111, 117, 118, 100, 111, 120, 123, 119, 121>>
       [] i = "PTAP_Chao" -> <<4, 4, 3, 4, 4, 4, 4, 3, 4, 4, 4, 4>>
       [] i = "Industria" -> <<50, 50, 50, 50, 50, 50, 50, 50, 50, 50, 50, 50>>
       [] i = "Pecuario" -> <<60, 60, 60, 60, 60, 60, 60, 60, 60, 60, 60, 60>>]

\* The run on the built-in data with the default arguments: scenario S1,
\* both multipliers 1.0, the rate 1e8 USD/hm3, the weights (100, 50, 1), a
\* canal of 88 m3/s; over every choice of the first month, both iteration
\* orders, with and without the default backend.
InitBuiltin ==
  InitOver([scenario |-> {"S1"},
            mults |-> {<<One, One>>},
            penalty |-> {100 * 1000 * 1000},
            weights |-> {<<100, 50, 1>>},
            cap |-> {88 * One},
            solver_name |-> {"cbc"},
            offer |-> {offer_m3s_builtin},
            demand |-> {demand_m3s_builtin},
            first_month |-> 1..(Len(AllMonths) - NMonths + 1),
            hashseed |-> {0, 1},
            installed |-> SUBSET {"PULP_CBC_CMD"},
            touched |-> {0}])

Next ==
  \/ CreateProblem
  \/ CreateVariables
  \/ LookupEff
  \/ AddBalance
  \/ AddSupply
  \/ AddCapSanta
  \/ AddZeroDeficit
  \/ SetObjective
  \/ SelectSolver
  \/ SolveRaises
  \/ SolveWithSolution
  \/ SolveWithoutSolution
  \/ Extract

Spec == Init /\ [][Next]_vars

SpecExtract == InitExtract /\ [][Next]_vars

SpecBuiltin == InitBuiltin /\ [][Next]_vars

(* ======================= properties of the model ======================= *)
PcOrder ==
  <<"start", "problem", "variables", "eff", "balance", "supply", "cap",
    "zero", "objective", "solver", "solved", "returned">>

PcIndex(p) == CHOOSE k \in 1..Len(PcOrder) : PcOrder[k] = p

\* the run has completed the step that leads to p
Built(p) ==
  IF pc = "raised" THEN error # "KeyError"
  ELSE PcIndex(pc) >= PcIndex(p)

\* the backend has ended with a solution
HasSolution == pc \in {"solved", "returned"} /\ prob.status = 1

RowsNamed(name) ==
  {k \in 1..Len(prob.constraints) : prob.constraints[k].name = name}

Val(v) == varValue[v][1]

RECURSIVE TotalOf(_)
TotalOf(arcs) ==
  IF arcs = {} THEN 0
  ELSE LET a == CHOOSE a \in arcs : TRUE
       IN  Val(XVar(a)) + TotalOf(arcs \ {a})

ArcsInto(j, m) == {a \in allowed_arcs : a[2] = j /\ a[3] = m}

ArcsFrom(i, m) == {a \in allowed_arcs : a[1] = i /\ a[3] = m}

Min(a, b) == IF a <= b THEN a ELSE b

\* C1: every (demand, month) has exactly one balance row, an equality:
\* efficiency(scenario, j) times the sum of x over the valid arcs into (j, m),
\* plus u(j, m), equals Dhat(j, m); so in every solution u(j, m) is exactly
\* the part of the requirement the deliveries leave uncovered.
C1_BalanceIsEquality ==
  /\ Built("balance") =>
       \A j \in Range(demands), m \in Range(months) :
         /\ Cardinality(RowsNamed(<<"Balance_Dem", j, m>>)) = 1
         /\ \A k \in RowsNamed(<<"Balance_Dem", j, m>>) :
              LET r == prob.constraints[k]
              IN  /\ r.sense = "=="
                  /\ r.rhs = One * demand_m3s[j][MonthIndex(m)] * DaysOf(m)
                  /\ Len(r.terms) = Cardinality(ArcsInto(j, m)) + 1
                  /\ Range(r.terms) =
                       {<<XVar(a), efficiencies[scenario][j]>> : a \in ArcsInto(j, m)}
                         \cup {<<UVar(j, m), One>>}
  /\ HasSolution =>
       \A j \in Range(demands), m \in Range(months) :
         One * Val(UVar(j, m)) =
           One * Dhat(j, m) - efficiencies[scenario][j] * TotalOf(ArcsInto(j, m))

C1_Witness ==
  /\ HasSolution
  /\ \E j \in Range(demands), m \in Range(months) :
       Val(UVar(j, m)) > 0 /\ TotalOf(ArcsInto(j, m)) > 0

\* the factor of the adjusted volume of a source, in units of 1/One
FactorOf(i) ==
  IF i = "Pozos_Chao" THEN mult_pozos_chao
  ELSE IF i = "Pozos_Viru" THEN mult_pozos_viru
  ELSE One

\* C2: every (source, month) has exactly one supply row: the sum over the
\* demands of x(i, j, m) is at most the base volume times mult_pozos_chao for
\* Pozos_Chao, times mult_pozos_viru for Pozos_Viru, and the base volume
\* itself for every other source; every solution keeps within it.
C2_SupplyBound ==
  /\ Built("supply") =>
       \A i \in Range(sources), m \in Range(months) :
         /\ Cardinality(RowsNamed(<<"Oferta", i, m>>)) = 1
         /\ \A k \in RowsNamed(<<"Oferta", i, m>>) :
              LET r == prob.constraints[k]
              IN  /\ r.sense = "<="
                  /\ r.rhs = offer_m3s[i][MonthIndex(m)] * DaysOf(m) * FactorOf(i)
                  /\ Len(r.terms) = Cardinality(ArcsFrom(i, m))
                  /\ Range(r.terms) = {<<XVar(a), One>> : a \in ArcsFrom(i, m)}
  /\ HasSolution =>
       \A i \in Range(sources), m \in Range(months) :
         One * TotalOf(ArcsFrom(i, m)) <= Qhat(i, m) * FactorOf(i)

C2_Witness ==
  /\ HasSolution
  /\ mult_pozos_chao > One
  /\ mult_pozos_viru = One
  /\ \E m \in Range(months) :
       /\ Val(XVar(<<"Pozos_Chao", "Chao", m>>)) > Qhat("Pozos_Chao", m)
       /\ Val(XVar(<<"Pozos_Viru", "Viru", m>>)) <= Qhat("Pozos_Viru", m)

\* C3: every month has one canal row, on Santa's arcs only, next to Santa's
\* own supply row, which stays; no other source has a canal row; so Santa's
\* monthly total in a solution is at most the smaller of the two bounds.
C3_CanalAndSupply ==
  /\ Built("cap") =>
       /\ \A m \in Range(months) :
            /\ Cardinality(RowsNamed(<<"Cap_Santa", "Santa", m>>)) = 1
            /\ \A k \in RowsNamed(<<"Cap_Santa", "Santa", m>>) :
                 LET r == prob.constraints[k]
                 IN  /\ r.sense = "<="
                     /\ r.rhs = One * cap_santa_m3s * DaysOf(m)
                     /\ Range(r.terms) = {<<XVar(a), One>> : a \in ArcsFrom("Santa", m)}
            /\ \E k \in RowsNamed(<<"Oferta", "Santa", m>>) :
                 prob.constraints[k].rhs = One * Qhat("Santa", m)
       /\ \A k \in 1..Len(prob.constraints) :
            prob.constraints[k].name[1] = "Cap_Santa" =>
              prob.constraints[k].name[2] = "Santa"
       /\ Cardinality({k \in 1..Len(prob.constraints) :
                         prob.constraints[k].name[1] = "Cap_Santa"}) = Len(months)
  /\ HasSolution =>
       \A m \in Range(months) :
         TotalOf(ArcsFrom("Santa", m)) <= Min(CapSanta(m), Qhat("Santa", m))

C3_Witness ==
  /\ HasSolution
  /\ \E m \in Range(months) :
       /\ CapSanta(m) < Qhat("Santa", m)
       /\ TotalOf(ArcsFrom("Santa", m)) = CapSanta(m)

PriorityDemands == {"PTAP_Trujillo", "PTAP_Chao", "Industria", "Pecuario"}

\* C4: each of the four priority demands has, every month, the row
\* u(j, m) == 0, whatever the penalty rate and the weights; no other demand
\* has one; so a solution has no deficit on a priority demand, and there is
\* none when a priority requirement exceeds what Santa can deliver.
C4_ZeroDeficit ==
  /\ Built("zero") =>
       /\ \A j \in PriorityDemands, m \in Range(months) :
            /\ Cardinality(RowsNamed(<<"DeficitCero", j, m>>)) = 1
            /\ \A k \in RowsNamed(<<"DeficitCero", j, m>>) :
                 LET r == prob.constraints[k]
                 IN  r.sense = "==" /\ r.rhs = 0 /\ r.terms = <<(<<UVar(j, m), One>>)>>
       /\ \A k \in 1..Len(prob.constraints) :
            prob.constraints[k].name[1] = "DeficitCero" =>
              prob.constraints[k].name[2] \in PriorityDemands
  /\ HasSolution =>
       \A j \in PriorityDemands, m \in Range(months) :
         /\ Val(UVar(j, m)) = 0
         /\ One * Dhat(j, m) <=
              efficiencies[scenario][j] * Min(CapSanta(m), Qhat("Santa", m))

C4_Witness ==
  /\ pc = "solved"
  /\ prob.status = -1
  /\ penalty_usd_hm3 = 0
  /\ \E j \in PriorityDemands, m \in Range(months) :
       One * Dhat(j, m) > efficiencies[scenario][j] * Min(CapSanta(m), Qhat("Santa", m))

ChaoSources == {"Huamanzana", "Chorobal", "Dren_Chao", "Pozos_Chao"}

ViruSources == {"Viru_Rio", "Dren_Viru", "Pozos_Viru"}

\* C5: the variables x are exactly the valid arcs, one each: Santa to every
\* demand, the four Chao sources to Chao, the three Viru sources to Viru, in
\* every month and whatever the scenario, the multipliers, the weights, the
\* canal capacity and the supply series; u has one variable per
\* (demand, month).
C5_VariablesAreValidArcs ==
  Built("variables") =>
    /\ Range(x) =
         {<<"Santa", j, m>> : j \in Range(demands), m \in Range(months)}
           \cup {<<i, "Chao", m>> : i \in ChaoSources, m \in Range(months)}
           \cup {<<i, "Viru", m>> : i \in ViruSources, m \in Range(months)}
    /\ Len(x) = Cardinality(Range(x))
    /\ Range(u) = Range(demands) \X Range(months)
    /\ Len(u) = Cardinality(Range(u))

C5_Witness ==
  /\ Built("variables")
  /\ scenario = "S2"
  /\ mult_pozos_viru > One
  /\ cap_santa_m3s = 10
  /\ \A m \in Range(months) :
       /\ offer_m3s["Huamanzana"][MonthIndex(m)] = 0
       /\ <<"Huamanzana", "Chao", m>> \in Range(x)

\* a variable without a value counts as zero
Val0(v) == IF varValue[v] = <<>> THEN 0 ELSE varValue[v][1]

RECURSIVE BenefitOver(_)
BenefitOver(arcs) ==
  IF arcs = {} THEN MZero
  ELSE LET a == CHOOSE a \in arcs : TRUE
       IN  MAdd(MTimes(Scale(efficiencies[scenario][a[2]], value_dem_USD_hm3(a[2])),
                       Val0(XVar(a))),
                BenefitOver(arcs \ {a}))

RECURSIVE CostOver(_)
CostOver(arcs) ==
  IF arcs = {} THEN MZero
  ELSE LET a == CHOOSE a \in arcs : TRUE
       IN  MAdd(MTimes(cost_offer_USD_hm3(a[1]), Val0(XVar(a))),
                CostOver(arcs \ {a}))

RECURSIVE PenaltyOver(_)
PenaltyOver(cells) ==
  IF cells = {} THEN MZero
  ELSE LET c == CHOOSE c \in cells : TRUE
       IN  MAdd(MTimesVol(MScale(MScale(MFromInt(penalty_usd_hm3), weight_dem(c[1])), 1000),
                          Val0(UVar(c[1], c[2]))),
                PenaltyOver(cells \ {c}))

RECURSIVE DeficitOver(_, _)
DeficitOver(js, m) ==
  IF js = {} THEN 0
  ELSE LET j == CHOOSE j \in js : TRUE
       IN  Val0(UVar(j, m)) + DeficitOver(js \ {j}, m)

AllDefined == \A v \in DOMAIN varValue : varValue[v] # <<>>

\* an amount is at most k away from zero
MWithin(a, k) ==
  LET n == MNorm(a)
  IN  \/ n[1] = 0 /\ n[2] = 0 /\ n[3] <= k
      \/ n[1] = 0 - 1 /\ n[2] = MBase - 1 /\ n[3] >= MBase - k

\* C6: when every variable has a value, the objective the run returns is
\* benefit_total - cost_total - penalty_total, the benefit being the sum of
\* efficiency * unit value * x, the cost the sum of unit cost * x without the
\* efficiency, the penalty the sum of rate * weight * u; the four rounded
\* fields of the summary agree to within two cents.
C6_ObjectiveReconciles ==
  (pc = "returned" /\ AllDefined) =>
    /\ result.benefit_total = MNorm(BenefitOver(allowed_arcs))
    /\ result.cost_total = MNorm(CostOver(allowed_arcs))
    /\ result.penalty_total = MNorm(PenaltyOver(Range(demands) \X Range(months)))
    /\ result.objective =
         <<MSub(MSub(result.benefit_total, result.cost_total), result.penalty_total)>>
    /\ ~result.summary.objective_USD.nan
    /\ MWithin(MSub(result.summary.objective_USD.cents,
                    MSub(MSub(result.summary.benefit_USD, result.summary.cost_USD),
                         result.summary.penalty_USD)), 2)

C6_Witness ==
  /\ pc = "returned"
  /\ AllDefined
  /\ prob.status = 1
  /\ efficiencies[scenario]["Chao"] < One
  /\ result.cost_total # MZero
  /\ result.benefit_total # MZero
  /\ result.penalty_total # MZero

\* C7: a scenario name that is not S1 or S2 makes the run fail before any
\* step of the construction: when the error is raised there is no problem
\* object, no variable, no row, no call of the solver and no result.
C7_FailsBeforeConstruction ==
  (pc = "raised" /\ error = "KeyError") =>
    /\ ~prob.exists
    /\ x = <<>>
    /\ u = <<>>
    /\ prob.constraints = <<>>
    /\ solve_calls = 0
    /\ ~result.returned

\* C8: whatever the solver name, when a default backend is installed the
\* absence of the requested backend never leaves build_and_solve as an
\* error, whether it shows at the construction of the backend object or at
\* its invocation.
C8_UnavailabilityNeverPropagates ==
  (LpSolverDefault # "None") => ~(pc = "raised" /\ error = "PulpSolverError")

\* the rows of a complete problem
ExpectedRows ==
  Len(demands) * Len(months) + Len(sources) * Len(months) + Len(months)
    + Cardinality(PriorityDemands) * Len(months)

\* C9: the solver is invoked once and never again, after every row and the
\* objective are in the problem and before any value is read; the status of
\* the result and of the summary is the name of the status that invocation
\* left, so Optimal is reported only for status 1.
C9_SolvedOnce ==
  /\ solve_calls \in {0, 1}
  /\ solve_calls = 1 <=> Built("solved")
  /\ solve_calls = 1 =>
       Len(prob.constraints) = ExpectedRows /\ prob.objective # <<>>
  /\ solve_calls = 0 => varValue = <<>> /\ ~result.returned /\ prob.status = 0
  /\ pc = "returned" =>
       /\ result.status = LpStatus[prob.status]
       /\ result.summary.status = LpStatus[prob.status]
       /\ result.status \in
            {"Optimal", "Infeasible", "Unbounded", "Not Solved", "Undefined"}
       /\ result.status = "Optimal" <=> prob.status = 1

C9_Witness ==
  /\ pc = "returned"
  /\ solve_calls = 1
  /\ prob.status = 0
  /\ result.summary.status = "Not Solved"
  /\ solver = "None"

\* C10: whatever the status and whichever variables have no value, the
\* extraction ends without an error with one allocation record per valid arc
\* and one deficit record per (demand, month); a variable without a value is
\* 0 in its record and in the totals of benefit, cost, penalty and monthly
\* deficit; an objective without a value is not-a-number in the summary.
C10_ExtractionCompletes ==
  /\ error # "TypeError"
  /\ pc = "returned" =>
       /\ Len(result.alloc_rows) = Cardinality(allowed_arcs)
       /\ {<<r.source, r.demand, r.month>> : r \in Range(result.alloc_rows)} = allowed_arcs
       /\ Len(result.deficit_rows) = Len(demands) * Len(months)
       /\ {<<r.demand, r.month>> : r \in Range(result.deficit_rows)} =
            Range(demands) \X Range(months)
       /\ \A r \in Range(result.alloc_rows) :
            /\ r.x_hm3 = M3PerUnit * Val0(XVar(<<r.source, r.demand, r.month>>))
            /\ varValue[XVar(<<r.source, r.demand, r.month>>)] = <<>> =>
                 r.delivered_hm3 = 0 /\ r.cost_USD = MZero /\ r.benefit_USD = MZero
       /\ \A r \in Range(result.deficit_rows) :
            r.deficit_hm3 = M3PerUnit * Val0(UVar(r.demand, r.month))
       /\ result.benefit_total = MNorm(BenefitOver(allowed_arcs))
       /\ result.cost_total = MNorm(CostOver(allowed_arcs))
       /\ result.penalty_total = MNorm(PenaltyOver(Range(demands) \X Range(months)))
       /\ \A m \in Range(months) :
            result.summary.deficits_hm3_by_month[m] =
              M3PerUnit * DeficitOver(Range(demands), m)
       /\ result.objective = <<>> <=> ~AllDefined
       /\ result.objective = <<>> => result.summary.objective_USD.nan

C10_Witness ==
  /\ pc = "returned"
  /\ prob.status = -3
  /\ result.summary.objective_USD.nan
  /\ \E v \in DOMAIN varValue : varValue[v] = <<>>
  /\ \E v \in DOMAIN varValue : varValue[v] # <<>> /\ varValue[v][1] > 0
  /\ MAdd(result.summary.benefit_USD, result.summary.penalty_USD) # MZero

\* the hash seeds of the runs that are compared
HashSeeds == {0, 1}

\* the arcs of a sequence of allocation records, in its order
RowKeys(rows) ==
  [k \in 1..Len(rows) |-> <<rows[k].source, rows[k].demand, rows[k].month>>]

\* What holds of the order: the allocation records follow the iteration
\* order of the set in this run, and are the same records as a set whatever
\* that order is.
AllocationOrderFollowsTheSet ==
  pc = "returned" =>
    /\ RowKeys(result.alloc_rows) = IterationOrder(allowed_arcs, hashseed)
    /\ Range(RowKeys(result.alloc_rows)) = allowed_arcs

\* C11: a run returns what any other run with the same arguments, the same
\* status and the same variable values returns: the allocation records in
\* the same order, whatever the order in which the set of arcs is iterated
\* in that other run, the deficit records in the same order, and an equal
\* summary.
C11_SameOutputWhateverTheOrder ==
  pc = "returned" =>
    /\ \A seed \in HashSeeds :
         RowKeys(result.alloc_rows) = IterationOrder(allowed_arcs, seed)
    /\ [k \in 1..Len(result.deficit_rows) |->
          <<result.deficit_rows[k].demand, result.deficit_rows[k].month>>] = UKeys
    /\ result.summary.benefit_USD = Round2(MNorm(BenefitOver(allowed_arcs)))
    /\ result.summary.cost_USD = Round2(MNorm(CostOver(allowed_arcs)))
    /\ result.summary.penalty_USD =
         Round2(MNorm(PenaltyOver(Range(demands) \X Range(months))))

\* the run on the built-in data with the default arguments
BuiltinRun ==
  /\ offer_m3s = offer_m3s_builtin
  /\ demand_m3s = demand_m3s_builtin
  /\ scenario = "S1"
  /\ mult_pozos_chao = One
  /\ mult_pozos_viru = One
  /\ penalty_usd_hm3 = 100 * 1000 * 1000
  /\ <<weight_ptap, weight_ind_pec, weight_agro>> = <<100, 50, 1>>
  /\ cap_santa_m3s = 88 * One

AgroDemands == Range(demands) \ PriorityDemands

Max(a, b) == IF a >= b THEN a ELSE b

RECURSIVE SumOf(_, _)
SumOf(f, S) ==
  IF S = {} THEN 0
  ELSE LET e == CHOOSE e \in S : TRUE IN f[e] + SumOf(f, S \ {e})

\* the largest and the least of a set of numbers
SetMax(S) == CHOOSE e \in S : \A f \in S : f <= e

SetMin(S) == CHOOSE e \in S : \A f \in S : e <= f

\* the largest efficiency at which water of source i reaches an
\* agricultural demand in month m
BestEff(i, m) ==
  SetMax({0} \cup {efficiencies[scenario][a[2]] :
                     a \in {a \in allowed_arcs :
                              a[1] = i /\ a[3] = m /\ a[2] \in AgroDemands}})

\* The least deficit the agricultural demands are left with in month m, in
\* volume units.  By the supply rows and the row of the canal a source gives
\* at most its adjusted volume, the canal at most its capacity; by the rows
\* of the priority demands these take their requirement, divided by their
\* efficiency, out of the sources that serve them; by the balance rows what
\* a source gives the agricultural demands reaches them times an
\* efficiency, at most BestEff.
LeastAgroDeficit(m) ==
  LET gives == [i \in Range(sources) |->
                  BestEff(i, m) *
                    (IF i = "Santa"
                       THEN Min(Qhat_adjusted(i, m), One * CapSanta(m))
                       ELSE Qhat_adjusted(i, m))]
      priority == SumOf([j \in Range(demands) |->
                           (One * One * Dhat(j, m)) \div efficiencies[scenario][j]],
                        PriorityDemands)
      lost == SetMin({BestEff(a[1], m) :
                        a \in {a \in allowed_arcs :
                                 a[3] = m /\ a[2] \in PriorityDemands}})
      reaches == (Max(0, SumOf(gives, Range(sources)) - lost * priority)
                    + One * One - 1) \div (One * One)
  IN  Max(0, SumOf([j \in Range(demands) |-> Dhat(j, m)], AgroDemands) - reaches)

RECURSIVE MSumOver(_, _)
MSumOver(f, S) ==
  IF S = {} THEN MZero
  ELSE LET e == CHOOSE e \in S : TRUE IN MAdd(f[e], MSumOver(f, S \ {e}))

\* No point that satisfies the rows has a larger objective: the benefit is
\* at most the value of every requirement delivered in full (by the balance
\* rows, no demand receives more than it requires), the cost is not
\* negative, and the penalty is at least the rate times the agricultural
\* weight times the least agricultural deficit.
ObjectiveBound ==
  MSub(MNorm(MSumOver([c \in Range(demands) \X Range(months) |->
                         MTimes(value_dem_USD_hm3(c[1]), Dhat(c[1], c[2]))],
                      Range(demands) \X Range(months))),
       MNorm(MSumOver([m \in Range(months) |->
                         MTimesVol(MScale(MScale(MFromInt(penalty_usd_hm3), weight_agro),
                                          1000),
                                   LeastAgroDeficit(m))],
                      Range(months))))

\* a <= b for two normalised amounts
MLeq(a, b) == MSub(b, a)[1] >= 0

\* C12, as it holds: on the built-in data with scenario S1, both multipliers
\* 1.0, the rate 1e8, the weights (100, 50, 1) and a canal of 88 m3/s, some
\* point satisfies every row and at every solution the four priority demands
\* have no deficit in any month; but an optimal objective is negative, since
\* it is at most ObjectiveBound, and ObjectiveBound is negative whatever the
\* months: the sources cannot cover the agricultural demands.
C12_BuiltinObjectiveIsNegative ==
  BuiltinRun =>
    /\ pc = "solver" => FeasiblePoints # {}
    /\ HasSolution =>
         \A j \in PriorityDemands, m \in Range(months) : Val(UVar(j, m)) = 0
    /\ (pc = "returned" /\ result.status = "Optimal") =>
         /\ result.objective # <<>>
         /\ MLeq(result.objective[1], ObjectiveBound)
         /\ ObjectiveBound[1] < 0
         /\ result.objective[1][1] < 0
         /\ result.summary.objective_USD.cents[1] < 0

C12_Witness ==
  /\ BuiltinRun
  /\ pc = "returned"
  /\ result.status = "Optimal"
  /\ first_month > 1
  /\ \A m \in Range(months) :
       /\ Val(XVar(<<"Santa", "PTAP_Trujillo", m>>)) = Dhat("PTAP_Trujillo", m)
       /\ Val(XVar(<<"Santa", "Chao", m>>)) > 0
       /\ Val(UVar("Chao", m)) = 0
       /\ Val(UVar("S1", m)) > 0
  /\ result.objective[1][1] < 0

\* C12, as stated: on the same run some point satisfies every row, the
\* solution has no deficit for PTAP_Trujillo, PTAP_Chao, Industria and
\* Pecuario in any month, and the optimal objective is not negative.
C12_BuiltinBaseline ==
  BuiltinRun =>
    /\ pc = "solver" => FeasiblePoints # {}
    /\ HasSolution =>
         \A j \in PriorityDemands, m \in Range(months) : Val(UVar(j, m)) = 0
    /\ (pc = "returned" /\ result.status = "Optimal") =>
         /\ result.objective # <<>>
         /\ result.objective[1][1] >= 0
         /\ result.summary.objective_USD.cents[1] >= 0

====
